---- MODULE Spec2Model ----
(***************************************************************************)
(* Model of meshbridge.py: the Meshtastic serial bridge manager.           *)
(*                                                                         *)
(* A Bridge object owns one socat subprocess and an optional mDNS          *)
(* registration.  The manager (main / yolo_mode) keeps the list `bridges`, *)
(* a cached device list, and reacts to menu input and to SIGINT.  The      *)
(* subprocesses live outside the manager and may exit at any time.         *)
(*                                                                         *)
(* Bridge objects live in `heap` (index = object identity); `proc` holds,  *)
(* for every object, the operating-system state of the subprocess it       *)
(* spawned.  `bridges` is the registry list of object identities.          *)
(***************************************************************************)
EXTENDS Integers, Sequences, FiniteSets, TLC

VARIABLES
    ZEROCONF_AVAILABLE,     \* module flag, meshbridge.py:29/31
    MESHTASTIC_AVAILABLE,   \* module flag, meshbridge.py:20/22
    darwin,                 \* sys.platform == "darwin"
    yolo,                   \* sys.argv[1] == "--yolo"
    pc,                     \* position of the control thread
    exit_code,              \* -1 while the manager runs, else the exit status
    heap,                   \* Bridge objects ever constructed
    proc,                   \* OS state of the subprocess of each object
    bridges,                \* the registry: sequence of object identities
    devices,                \* cached device list
    need_scan,              \* flag controlling the rescan
    active_device_paths,    \* the set computed at line 521
    device,                 \* the device selected at line 573
    default_port,           \* result of get_next_available_port at line 592
    cur,                    \* the Bridge being constructed/started (0: none)
    env,                    \* outcome of the external calls of the start() in progress
    stopLog,                \* external operations issued by the latest stop() of the harness
    lastCall,               \* latest method call of the Bridge unit harness
    probe,                  \* the query_meshtastic_info call of the probe harness
    handler                 \* frames of signal_handler in progress, in the shutdown harness

vars == <<ZEROCONF_AVAILABLE, MESHTASTIC_AVAILABLE, darwin, yolo, pc, exit_code,
          heap, proc, bridges, devices, need_scan, active_device_paths, device,
          default_port, cur, env, stopLog, lastCall, probe, handler>>

(***************************************************************************)
(* Bounds of the model.                                                    *)
(***************************************************************************)
\* Bridge objects constructed in one run of the manager.
MaxBridges == 2
\* Bridge objects of the unit harness of class Bridge.
MaxObjects == 1
\* Length of the bridge lists handed to get_next_available_port.
MaxListed == 2
\* Ports the user may type: DefaultPort .. DefaultPort + MaxPortOffset.
MaxPortOffset == 1

(***************************************************************************)
(* Program constants.                                                      *)
(***************************************************************************)
DefaultPort == 4403
DefaultBaud == 115200

\* Probe results: "" is None (no identifier).
NodeNames == {"", "!3c7f9d4e"}

UserPorts == DefaultPort .. (DefaultPort + MaxPortOffset)

ObjIds == 1 .. Len(heap)

(***************************************************************************)
(* class SerialDevice / class Bridge                                       *)
(***************************************************************************)
SerialDevice(path, node_name) == [path |-> path, node_name |-> node_name]

NoDevice == SerialDevice("", "")

\* Bridge.__init__: no process, no Zeroconf instance, no ServiceInfo.
Bridge(dev, port, node_id) ==
    [device |-> dev, port |-> port, node_id |-> node_id, baud |-> DefaultBaud,
     process |-> FALSE, zeroconf |-> FALSE, service_info |-> FALSE]

\* The cached-flag variant: liveness read from the handle alone.
is_running_cached(h, p, i) == h[i].process

\* Bridge.is_running: self.process is not None and self.process.poll() is None
is_running(h, p, i) == h[i].process /\ p[i] = "running"

\* The condition guarding the mDNS part of stop(), line 145.
has_registration(b) == b.zeroconf /\ b.service_info


(***************************************************************************)
(* Bridge.start.  `e` is what the environment does to the external calls   *)
(* of this start(): whether stty succeeds, whether Popen succeeds, and     *)
(* where, if anywhere, _start_mdns raises.  The result carries the object  *)
(* after the call, the OS state of its subprocess, the return value and    *)
(* the calls that were made with their outcome ("-": not made).            *)
(***************************************************************************)
NoEnv == [stty |-> "-", popen |-> "-", mdns |-> "-"]

\* Outcomes of _start_mdns: where, if anywhere, lines 113-137 raise.
MdnsOutcomes == {"ok", "fail_before_zeroconf", "fail_service_info", "fail_register"}

StartEnvs == [stty : BOOLEAN, popen : BOOLEAN, mdns : MdnsOutcomes]

\* subprocess.Popen succeeded (line 95): the handle is stored.
start_popen(b) == [b EXCEPT !.process = TRUE]

\* The mDNS guard dropped: registration attempted for any bridge.
mdns_wanted_always(b) == TRUE

\* Line 100: if ZEROCONF_AVAILABLE and self.node_id
mdns_wanted(b) == ZEROCONF_AVAILABLE /\ b.node_id # ""

\* Bridge._start_mdns: the exception is swallowed at line 138; the fields
\* assigned before the raising line stay assigned.
start_mdns(b, outcome) ==
    CASE outcome = "fail_before_zeroconf" -> b
      [] outcome = "fail_service_info"    -> [b EXCEPT !.zeroconf = TRUE]
      [] outcome = "fail_register"        -> [b EXCEPT !.zeroconf = TRUE,
                                                       !.service_info = TRUE]
      [] OTHER                            -> [b EXCEPT !.zeroconf = TRUE,
                                                       !.service_info = TRUE]

\* start() with a registration failure propagating to the handler of line 104.
start_mdns_fatal(b, e) ==
    IF ~e.stty
    THEN [b |-> b, p |-> "none", ret |-> FALSE,
          seen |-> [stty |-> "fail", popen |-> "-", mdns |-> "-"]]
    ELSE IF ~e.popen
    THEN [b |-> b, p |-> "none", ret |-> FALSE,
          seen |-> [stty |-> "ok", popen |-> "fail", mdns |-> "-"]]
    ELSE IF mdns_wanted(b)
    THEN [b |-> start_mdns(start_popen(b), e.mdns), p |-> "running",
          ret |-> e.mdns = "ok",
          seen |-> [stty |-> "ok", popen |-> "ok", mdns |-> e.mdns]]
    ELSE [b |-> start_popen(b), p |-> "running", ret |-> TRUE,
          seen |-> [stty |-> "ok", popen |-> "ok", mdns |-> "-"]]

\* start() with the stty failure ignored (check=True dropped at line 84).
start_ignores_stty(b, e) ==
    IF ~e.popen
    THEN [b |-> b, p |-> "none", ret |-> FALSE,
          seen |-> [stty |-> IF e.stty THEN "ok" ELSE "fail", popen |-> "fail",
                    mdns |-> "-"]]
    ELSE IF mdns_wanted(b)
    THEN [b |-> start_mdns(start_popen(b), e.mdns), p |-> "running", ret |-> TRUE,
          seen |-> [stty |-> IF e.stty THEN "ok" ELSE "fail", popen |-> "ok",
                    mdns |-> e.mdns]]
    ELSE [b |-> start_popen(b), p |-> "running", ret |-> TRUE,
          seen |-> [stty |-> IF e.stty THEN "ok" ELSE "fail", popen |-> "ok",
                    mdns |-> "-"]]

\* Bridge.start, lines 79-106.
start(b, e) ==
    IF ~e.stty
    THEN [b |-> b, p |-> "none", ret |-> FALSE,
          seen |-> [stty |-> "fail", popen |-> "-", mdns |-> "-"]]
    ELSE IF ~e.popen
    THEN [b |-> b, p |-> "none", ret |-> FALSE,
          seen |-> [stty |-> "ok", popen |-> "fail", mdns |-> "-"]]
    ELSE IF mdns_wanted(b)
    THEN [b |-> start_mdns(start_popen(b), e.mdns), p |-> "running", ret |-> TRUE,
          seen |-> [stty |-> "ok", popen |-> "ok", mdns |-> e.mdns]]
    ELSE [b |-> start_popen(b), p |-> "running", ret |-> TRUE,
          seen |-> [stty |-> "ok", popen |-> "ok", mdns |-> "-"]]

(***************************************************************************)
(* Bridge.stop.  The state stop() leaves does not depend on how the        *)
(* external calls end: the handles are cleared whether or not              *)
(* unregister_service raises, and the subprocess is gone after terminate   *)
(* or, failing that within 3 s, kill.  The external operations issued do   *)
(* depend on it: `unreg` says whether unregister_service/close raise,      *)
(* `graceful` whether the subprocess exits within the wait.                *)
(***************************************************************************)
UnregOutcomes == {"ok", "unregister_raises", "close_raises"}

StopOutcomes == [unreg : UnregOutcomes, graceful : BOOLEAN]

\* Operations of the mDNS part, lines 145-152.
stop_mdns_ops(b, unreg) ==
    IF has_registration(b)
    THEN IF unreg = "unregister_raises"
         THEN <<"unregister_service">>
         ELSE <<"unregister_service", "close">>
    ELSE <<>>

\* Operations of the process part, lines 155-161.
stop_process_ops(b, p, graceful) ==
    IF b.process
    THEN IF p = "running" /\ ~graceful
         THEN <<"terminate", "wait", "kill">>
         ELSE <<"terminate", "wait">>
    ELSE <<>>

\* The operations with the subprocess torn down before the registration.
stop_ops_process_first(b, p, out) ==
    stop_process_ops(b, p, out.graceful) \o stop_mdns_ops(b, out.unreg)

\* The external operations of one stop(), in order.
stop_ops(b, p, out) ==
    stop_mdns_ops(b, out.unreg) \o stop_process_ops(b, p, out.graceful)

\* stop() without the handle reset of line 161.
stop_keeps_handle(b) ==
    IF has_registration(b)
    THEN [b EXCEPT !.zeroconf = FALSE, !.service_info = FALSE]
    ELSE b

\* The Bridge object after stop(), lines 145-161.
stop(b) ==
    LET b1 == IF has_registration(b)
              THEN [b EXCEPT !.zeroconf = FALSE, !.service_info = FALSE]
              ELSE b
    IN  IF b.process THEN [b1 EXCEPT !.process = FALSE] ELSE b1

\* The subprocess after stop(): terminated or killed if there was a handle.
stop_proc(b, p) == IF b.process /\ p = "running" THEN "exited" ELSE p

\* The teardown loop without the liveness test: stop() on every bridge.
RECURSIVE stop_every(_, _, _)
stop_every(ids, h, p) ==
    IF ids = <<>>
    THEN [heap |-> h, proc |-> p]
    ELSE LET i == Head(ids)
         IN  stop_every(Tail(ids), [h EXCEPT ![i] = stop(h[i])],
                        [p EXCEPT ![i] = stop_proc(h[i], p[i])])

\* The teardown loop shared by the signal handler, quit and stop-all:
\*     for bridge in bridges:
\*         if bridge.is_running():
\*             bridge.stop()
RECURSIVE stop_running(_, _, _)
stop_running(ids, h, p) ==
    IF ids = <<>>
    THEN [heap |-> h, proc |-> p]
    ELSE LET i == Head(ids)
         IN  IF is_running(h, p, i)
             THEN stop_running(Tail(ids), [h EXCEPT ![i] = stop(h[i])],
                               [p EXCEPT ![i] = stop_proc(h[i], p[i])])
             ELSE stop_running(Tail(ids), h, p)

(***************************************************************************)
(* get_next_available_port                                                 *)
(***************************************************************************)
\* Line 354 without the liveness filter: every registered port counts.
used_ports_all(ids) == {heap[i].port : i \in {ids[k] : k \in 1 .. Len(ids)}}

\* Line 354: used_ports = {b.port for b in bridges if b.is_running()}
used_ports(ids) ==
    {heap[i].port : i \in {j \in {ids[k] : k \in 1 .. Len(ids)} :
                             is_running(heap, proc, j)}}

\* Lines 355-358: the while loop.
RECURSIVE next_free(_, _)
next_free(port, used) == IF port \in used THEN next_free(port + 1, used) ELSE port

\* The base port proposed whatever the running bridges hold.
get_start_port(start_port, ids) == start_port

get_next_available_port(start_port, ids) == next_free(start_port, used_ports(ids))

(***************************************************************************)
(* Derived views of the registry.                                          *)
(***************************************************************************)
\* Lines 492 and 521: {b.device for b in bridges if b.is_running()}
live_device_paths(ids) ==
    {heap[i].device : i \in {j \in {ids[k] : k \in 1 .. Len(ids)} :
                               is_running(heap, proc, j)}}

\* Lines 577-584: next(b for b in bridges if b.device == path and
\* b.is_running(), None); 0 stands for None.
existing_bridge(path) ==
    LET hits == {k \in 1 .. Len(bridges) :
                    /\ heap[bridges[k]].device = path
                    /\ is_running(heap, proc, bridges[k])}
    IN  IF hits = {} THEN 0
        ELSE bridges[CHOOSE k \in hits : \A m \in hits : k <= m]


(***************************************************************************)
(* find_serial_devices                                                     *)
(***************************************************************************)
\* Lines 295 and 325: the glob patterns, in order.
patterns ==
    IF darwin
    THEN <<"/dev/tty.usb*", "/dev/cu.usb*", "/dev/tty.SLAB*", "/dev/cu.SLAB*">>
    ELSE <<"/dev/ttyUSB*", "/dev/ttyACM*">>

\* glob.glob(pattern) over the paths of the model.
glob_matches(pattern) ==
    CASE pattern = "/dev/tty.usb*" -> {"/dev/tty.usbmodem1101"}
      [] pattern = "/dev/cu.usb*"  -> {"/dev/cu.usbmodem1101", "/dev/cu.usbserial-0001",
                                       "/dev/cu.usbmodemM4AE1CAEMD6"}
      [] pattern = "/dev/ttyUSB*"  -> {"/dev/ttyUSB0"}
      [] pattern = "/dev/ttyACM*"  -> {"/dev/ttyACM0"}
      [] OTHER                     -> {}

\* Line 289: re.compile(r"/dev/cu\.usbmodem[A-Z0-9]{10,}").match(path)
skip_pattern_match(path) == path = "/dev/cu.usbmodemM4AE1CAEMD6"

\* Line 314: path.startswith("/dev/cu.")
starts_with_cu(path) ==
    path \in {"/dev/cu.usbmodem1101", "/dev/cu.usbserial-0001",
              "/dev/cu.usbmodemM4AE1CAEMD6"}

\* All orders in which glob may list a set of paths.
Orders(S) ==
    {s \in [1 .. Cardinality(S) -> S] :
        \A i, j \in 1 .. Cardinality(S) : i # j => s[i] # s[j]}

\* What glob.glob(pattern) may return: the device files that exist at the
\* time of the scan, in any order.
glob(pattern) == UNION {Orders(S) : S \in SUBSET glob_matches(pattern)}

\* The paths visited by the nested loops of lines 297-298 / 327-328.
RECURSIVE listings(_)
listings(pats) ==
    IF pats = <<>>
    THEN {<<>>}
    ELSE {g \o rest : g \in glob(Head(pats)), rest \in listings(Tail(pats))}

\* The macOS filter without the skip_devices test of line 300.
keep_path_no_skip(path, skip_devices) ==
    IF darwin
    THEN ~skip_pattern_match(path) /\ starts_with_cu(path)
    ELSE TRUE

\* Lines 300-322 (macOS) and 329-334 (other platforms): whether a listed
\* path is appended to the device list.
keep_path(path, skip_devices) ==
    IF darwin
    THEN path \notin skip_devices /\ ~skip_pattern_match(path) /\ starts_with_cu(path)
    ELSE TRUE

\* Lines 337-347: the probe result attached to every device; without the
\* meshtastic library nothing is probed and node_name stays "".
probe_results(n) ==
    IF MESHTASTIC_AVAILABLE THEN [1 .. n -> NodeNames] ELSE [1 .. n -> {""}]

\* Every device list find_serial_devices(skip_devices=...) may return.
find_serial_devices(skip_devices) ==
    LET Keep(path) == keep_path(path, skip_devices)
        kept == {SelectSeq(l, Keep) : l \in listings(patterns)}
    IN  UNION {{[k \in 1 .. Len(paths) |-> SerialDevice(paths[k], names[k])] :
                    names \in probe_results(Len(paths))} : paths \in kept}

(***************************************************************************)
(* Initial state: the interpreter has loaded the module; main() begins.    *)
(***************************************************************************)
\* No query_meshtastic_info call has been made.
NoProbe == [st |-> "idle", session |-> "none", now |-> 0, id_known |-> FALSE,
            owner_known |-> FALSE, ret |-> "-"]

\* signal_handler is not running.
NoHandler == [stack |-> <<>>, unregistered |-> {}, live_at_signal |-> {}]

NoCall == [op |-> "-", obj |-> 0, arg |-> 0, ret |-> 0]

Init ==
    /\ ZEROCONF_AVAILABLE \in BOOLEAN
    /\ MESHTASTIC_AVAILABLE \in BOOLEAN
    /\ darwin \in BOOLEAN
    /\ yolo \in BOOLEAN
    /\ pc = "check_deps"
    /\ exit_code = -1
    /\ heap = <<>>
    /\ proc = <<>>
    /\ bridges = <<>>
    /\ devices = <<>>
    /\ need_scan = TRUE
    /\ active_device_paths = {}
    /\ device = NoDevice
    /\ default_port = 0
    /\ cur = 0
    /\ env = NoEnv
    /\ stopLog = <<>>
    /\ lastCall = NoCall
    /\ probe = NoProbe
    /\ handler = NoHandler

flags == <<ZEROCONF_AVAILABLE, MESHTASTIC_AVAILABLE, darwin, yolo>>
harness == <<stopLog, lastCall, probe, handler>>

\* The manager process runs and has installed its signal handler.
Alive == pc \notin {"check_deps", "exited", "interrupted", "crashed"}

\* The locals of the loop body are dead once the body is left (each is
\* assigned again before it is read): they are forgotten, so that states
\* differing only in dead values coincide.
ForgetLocals ==
    /\ device' = NoDevice
    /\ default_port' = 0
    /\ env' = NoEnv

\* The manager process ends: sys.exit(code) at a menu choice ("exited") or in
\* the signal handler ("interrupted"), or an uncaught exception ("crashed").  Its
\* memory is gone; the model keeps the Bridge objects as they were at that
\* moment, to tell which handles had been released.
Terminate(how, code) ==
    /\ pc' = how
    /\ exit_code' = code
    /\ devices' = <<>>
    /\ need_scan' = FALSE
    /\ active_device_paths' = {}
    /\ ForgetLocals

Exit(code) == Terminate("exited", code)

(***************************************************************************)
(* main(): the top of the menu loop, lines 485-521, up to the input() the  *)
(* control thread blocks in.  It is the tail of every step that ends with  *)
(* `continue`; it reads the registry as that step leaves it.               *)
(***************************************************************************)
LoopTop(scan) ==
    /\ \E scanned \in (IF scan
                       THEN find_serial_devices(live_device_paths(bridges)')
                       ELSE {devices}) :
          /\ devices' = scanned
          /\ pc' = (IF scanned = <<>> THEN "empty_prompt" ELSE "prompt")
          /\ active_device_paths' =
                IF scanned # <<>> THEN live_device_paths(bridges)' ELSE {}
    /\ need_scan' = FALSE
    /\ exit_code' = exit_code

\* `continue` with a rescan forced on every pass.
continue_with_rescan(scan) == ForgetLocals /\ LoopTop(TRUE)

\* `continue`: the locals die, the loop starts over.
Continue(scan) == ForgetLocals /\ LoopTop(scan)

(***************************************************************************)
(* check_dependencies and the installation of the signal handler           *)
(* (lines 392-406 and 466-483).                                            *)
(***************************************************************************)
CheckDependencies ==
    /\ pc = "check_deps"
    /\ UNCHANGED <<flags, heap, proc, bridges, cur, harness>>
    /\ \E socat_ok \in BOOLEAN :
          IF ~socat_ok
          THEN Exit(1)
          ELSE IF yolo
          THEN /\ pc' = "yolo_scan"
               /\ UNCHANGED <<exit_code, devices, need_scan, active_device_paths,
                              device, default_port, env>>
          ELSE Continue(need_scan)

(***************************************************************************)
(* The teardown of lines 474-476 / 400-402 / 508-510 / 553-555 / 562-564.  *)
(***************************************************************************)
Teardown(r) ==
    /\ heap' = r.heap
    /\ proc' = r.proc

\* signal_handler (lines 472-478 and 398-404), run when SIGINT is delivered
\* to the control thread between two of its steps.
signal_handler ==
    /\ Alive
    /\ pc # "harness"
    /\ Teardown(stop_running(bridges, heap, proc))
    /\ Terminate("interrupted", 0)
    /\ UNCHANGED <<flags, bridges, cur, harness>>

\* A forwarding subprocess exits on its own (device unplugged, bind error,
\* crash): poll() no longer returns None.
ProcExit(i) ==
    /\ Alive
    /\ proc[i] = "running"
    /\ proc' = [proc EXCEPT ![i] = "exited"]
    /\ lastCall' = NoCall
    /\ stopLog' = <<>>
    /\ UNCHANGED <<flags, probe, handler, pc, exit_code, heap, bridges, devices, need_scan,
                   active_device_paths, device, default_port, cur, env>>

(***************************************************************************)
(* main(): the choices at the menu prompt.                                 *)
(***************************************************************************)
\* choice == "q", lines 507-511 and 552-556.
Quit ==
    /\ pc \in {"empty_prompt", "prompt"}
    /\ Teardown(stop_running(bridges, heap, proc))
    /\ Exit(0)
    /\ UNCHANGED <<flags, bridges, cur, harness>>

\* choice == "r", lines 512-514 and 557-559.
Refresh ==
    /\ pc \in {"empty_prompt", "prompt"}
    /\ UNCHANGED <<flags, heap, proc, bridges, cur, harness>>
    /\ Continue(TRUE)

\* The stop-all branch with the registry left as it was.
stop_all_registry_kept == bridges

\* Line 565: bridges.clear()
stop_all_registry == <<>>

\* choice == "s" and bridges, lines 560-569.
StopAll ==
    /\ pc = "prompt"
    /\ bridges # <<>>
    /\ Teardown(stop_running(bridges, heap, proc))
    /\ bridges' = stop_all_registry
    /\ UNCHANGED <<flags, cur, harness>>
    /\ Continue(TRUE)

\* Any other text (lines 515-518, 636-639), "s" with an empty registry
\* included.
InvalidOption ==
    /\ pc \in {"empty_prompt", "prompt"}
    /\ UNCHANGED <<flags, heap, proc, bridges, cur, harness>>
    /\ Continue(need_scan)

\* A number outside 1..len(devices), lines 632-635.
InvalidDeviceNumber ==
    /\ pc = "prompt"
    /\ \E n \in {0, Len(devices) + 1} : ~(0 <= n - 1 /\ n - 1 < Len(devices))
    /\ UNCHANGED <<flags, heap, proc, bridges, cur, harness>>
    /\ Continue(need_scan)

\* The device check dropped: no device counts as bridged.
already_bridged_never(path) == FALSE

\* Line 576: if device.path in active_device_paths
already_bridged(path) == path \in active_device_paths

\* A device number in range, lines 570-595: either the "already running"
\* branch, or the default port is computed and the port prompt is shown.
\* existing_bridge.port at line 586 raises AttributeError when no running
\* bridge holds the path any more; nothing catches it.
SelectDevice(n) ==
    /\ pc = "prompt"
    /\ 0 <= n - 1 /\ n - 1 < Len(devices)
    /\ UNCHANGED <<flags, heap, proc, bridges, cur, harness>>
    /\ IF already_bridged(devices[n].path)
       THEN IF existing_bridge(devices[n].path) = 0
            THEN Terminate("crashed", 1)
            ELSE Continue(need_scan)
       ELSE /\ Len(heap) < MaxBridges
            /\ device' = devices[n]
            /\ default_port' = get_next_available_port(DefaultPort, bridges)
            /\ pc' = "port_prompt"
            /\ UNCHANGED <<exit_code, devices, need_scan, active_device_paths, env>>

\* Lines 609-611 / 431-433: bridge = Bridge(device.path, port,
\* node_id=device.node_name), then bridge.start().
CreateAndStart(dev, port) ==
    /\ Len(heap) < MaxBridges
    /\ \E e \in StartEnvs :
          LET r == start(Bridge(dev.path, port, dev.node_name), e)
          IN  /\ heap' = Append(heap, r.b)
              /\ proc' = Append(proc, r.p)
              /\ cur' = Len(heap) + 1
              /\ IF r.ret
                 THEN /\ pc' = "start_ret"
                      /\ env' = r.seen
                      /\ UNCHANGED <<exit_code, devices, need_scan,
                                     active_device_paths, device, default_port>>
                 ELSE IF yolo
                 THEN Exit(1)
                 ELSE /\ pc' = "start_failed"
                      /\ env' = r.seen
                      /\ UNCHANGED <<exit_code, devices, need_scan,
                                     active_device_paths, device, default_port>>

\* Lines 597-611 with a number typed at the port prompt.
EnterPort(port) ==
    /\ pc = "port_prompt"
    /\ CreateAndStart(device, port)
    /\ UNCHANGED <<flags, bridges, harness>>

\* Lines 604-611: empty input, the default port is taken.
AcceptDefaultPort ==
    /\ pc = "port_prompt"
    /\ CreateAndStart(device, default_port)
    /\ UNCHANGED <<flags, bridges, harness>>

\* Lines 600-603: int(port_input) raises ValueError.
InvalidPort ==
    /\ pc = "port_prompt"
    /\ UNCHANGED <<flags, heap, proc, bridges, cur, harness>>
    /\ Continue(need_scan)

\* The append skipped: the started bridge is never registered.
registry_after_start_unchanged(b) == bridges

\* Lines 612 and 434: bridges.append(bridge)
registry_after_start(b) == Append(bridges, b)

\* Lines 611-627 / 433-450: start() returned True.
StartReturnsTrue ==
    /\ pc = "start_ret"
    /\ bridges' = registry_after_start(cur)
    /\ UNCHANGED <<flags, heap, proc, cur, harness>>
    /\ IF yolo
       THEN /\ pc' = "yolo_wait"
            /\ ForgetLocals
            /\ UNCHANGED <<exit_code, devices, need_scan, active_device_paths>>
       ELSE Continue(need_scan)

\* Lines 628-631: start() returned False; input("Press Enter to continue...").
StartFailedContinue ==
    /\ pc = "start_failed"
    /\ UNCHANGED <<flags, heap, proc, bridges, cur, harness>>
    /\ Continue(need_scan)

(***************************************************************************)
(* yolo_mode(), lines 408-433: scan once, take the first device with a     *)
(* node name, construct its bridge on the default port and start it.       *)
(***************************************************************************)
\* The selection that takes the last identified device instead.
last_identified(devs) ==
    LET hits == {k \in 1 .. Len(devs) : devs[k].node_name # ""}
    IN  IF hits = {} THEN 0 ELSE CHOOSE k \in hits : \A m \in hits : k >= m

\* Lines 416-420: the first device of the list with a node name (0: none).
first_identified(devs) ==
    LET hits == {k \in 1 .. Len(devs) : devs[k].node_name # ""}
    IN  IF hits = {} THEN 0 ELSE CHOOSE k \in hits : \A m \in hits : k <= m

\* Lines 409-413: the single scan; no device, exit 1.
YoloScan ==
    /\ pc = "yolo_scan"
    /\ UNCHANGED <<flags, heap, proc, bridges, cur, harness>>
    /\ \E scanned \in find_serial_devices({}) :
          IF scanned = <<>>
          THEN Exit(1)
          ELSE /\ devices' = scanned
               /\ pc' = "yolo_pick"
               /\ UNCHANGED <<exit_code, need_scan, active_device_paths, device,
                              default_port, env>>

\* Lines 416-433: the first device with a node name, or exit 1; its bridge
\* on port 4403.
YoloStart ==
    /\ pc = "yolo_pick"
    /\ UNCHANGED <<flags, bridges, harness>>
    /\ IF first_identified(devices) = 0
       THEN /\ Exit(1)
            /\ UNCHANGED <<heap, proc, cur>>
       ELSE CreateAndStart(devices[first_identified(devices)], DefaultPort)

Next ==
    \/ CheckDependencies
    \/ Quit
    \/ Refresh
    \/ StopAll
    \/ InvalidOption
    \/ InvalidDeviceNumber
    \/ \E n \in 1 .. Len(devices) : SelectDevice(n)
    \/ \E port \in UserPorts : EnterPort(port)
    \/ AcceptDefaultPort
    \/ InvalidPort
    \/ StartReturnsTrue
    \/ StartFailedContinue
    \/ YoloScan
    \/ YoloStart
    \/ \E i \in ObjIds : ProcExit(i)
    \/ signal_handler

Spec == Init /\ [][Next]_vars


(***************************************************************************)
(* Unit harness of class Bridge and get_next_available_port: a caller that *)
(* constructs Bridge objects, keeps them in the list `bridges` and calls   *)
(* their methods in any order, while the subprocesses may exit on their    *)
(* own.  `lastCall` is the latest call and its result, `stopLog` the       *)
(* external operations it issued if it was a stop(); both are reset when a *)
(* subprocess exits.                                                       *)
(***************************************************************************)
HarnessDevices == {"/dev/ttyUSB0", "/dev/ttyACM0"}

HarnessBasePorts == (DefaultPort - 1) .. (DefaultPort + MaxPortOffset)

Call(op, obj, arg, ret) == [op |-> op, obj |-> obj, arg |-> arg, ret |-> ret]

InitHarness ==
    /\ ZEROCONF_AVAILABLE \in BOOLEAN
    /\ MESHTASTIC_AVAILABLE = TRUE
    /\ darwin = FALSE
    /\ yolo = FALSE
    /\ pc = "harness"
    /\ exit_code = -1
    /\ heap = <<>>
    /\ proc = <<>>
    /\ bridges = <<>>
    /\ devices = <<>>
    /\ need_scan = FALSE
    /\ active_device_paths = {}
    /\ device = NoDevice
    /\ default_port = 0
    /\ cur = 0
    /\ env = NoEnv
    /\ stopLog = <<>>
    /\ lastCall = NoCall
    /\ probe = NoProbe
    /\ handler = NoHandler

manager == <<pc, exit_code, devices, need_scan, active_device_paths, device,
             default_port, cur>>

\* b = Bridge(dev, port, node_id); bridges.append(b)
HNew(dev, port, node_id) ==
    /\ pc = "harness"
    /\ Len(heap) < MaxObjects
    /\ heap' = Append(heap, Bridge(dev, port, node_id))
    /\ proc' = Append(proc, "none")
    /\ bridges' = Append(bridges, Len(heap) + 1)
    /\ lastCall' = Call("Bridge", Len(heap) + 1, 0, 0)
    /\ stopLog' = <<>>
    /\ UNCHANGED <<flags, manager, probe, handler, env>>

\* b.start(), on a Bridge that was never started.
HStart(i, e) ==
    /\ pc = "harness"
    /\ ~heap[i].process /\ proc[i] = "none"
    /\ LET r == start(heap[i], e)
       IN  /\ heap' = [heap EXCEPT ![i] = r.b]
           /\ proc' = [proc EXCEPT ![i] = r.p]
           /\ lastCall' = Call("start", i, 0, r.ret)
    /\ stopLog' = <<>>
    /\ UNCHANGED <<flags, manager, probe, handler, bridges, env>>

\* b.stop(), in whatever state b is.
HStop(i, out) ==
    /\ pc = "harness"
    /\ heap' = [heap EXCEPT ![i] = stop(heap[i])]
    /\ proc' = [proc EXCEPT ![i] = stop_proc(heap[i], proc[i])]
    /\ stopLog' = stop_ops(heap[i], proc[i], out)
    /\ lastCall' = Call("stop", i, 0, 0)
    /\ UNCHANGED <<flags, manager, probe, handler, bridges, env>>

\* b.is_running()
HIsRunning(i) ==
    /\ pc = "harness"
    /\ lastCall' = Call("is_running", i, 0, is_running(heap, proc, i))
    /\ stopLog' = <<>>
    /\ UNCHANGED <<flags, manager, probe, handler, heap, proc, bridges, env>>

\* get_next_available_port(start_port, bridges)
HGetNextAvailablePort(start_port) ==
    /\ pc = "harness"
    /\ lastCall' = Call("get_next_available_port", 0, start_port,
                        get_next_available_port(start_port, bridges))
    /\ stopLog' = <<>>
    /\ UNCHANGED <<flags, manager, probe, handler, heap, proc, bridges, env>>

NextHarness ==
    \/ \E dev \in HarnessDevices, port \in UserPorts, node_id \in NodeNames :
          HNew(dev, port, node_id)
    \/ \E i \in ObjIds, e \in StartEnvs : HStart(i, e)
    \/ \E i \in ObjIds, out \in StopOutcomes : HStop(i, out)
    \/ \E i \in ObjIds : HIsRunning(i)
    \/ \E i \in ObjIds : ProcExit(i)

BridgeSpec == InitHarness /\ [][NextHarness]_vars

(***************************************************************************)
(* Harness of the derived views: the caller holds a list of bridges, each  *)
(* in one of the states the manager leaves a registered bridge in (never   *)
(* started, running, exited on its own, stopped), asks for the next port   *)
(* and for liveness, and stops bridges, while subprocesses exit.           *)
(***************************************************************************)
\* (process handle, OS state) of a listed bridge.
ListedStates == {<<FALSE, "none">>, <<TRUE, "running">>, <<TRUE, "exited">>,
                 <<FALSE, "exited">>}

ListedBridges == HarnessDevices \X UserPorts \X ListedStates

InitRegistry ==
    /\ ZEROCONF_AVAILABLE = FALSE
    /\ MESHTASTIC_AVAILABLE = FALSE
    /\ darwin = FALSE
    /\ yolo = FALSE
    /\ pc = "harness"
    /\ exit_code = -1
    /\ \E n \in 0 .. MaxListed :
          \E l \in [1 .. n -> ListedBridges] :
             /\ heap = [k \in 1 .. n |->
                          [Bridge(l[k][1], l[k][2], "") EXCEPT !.process = l[k][3][1]]]
             /\ proc = [k \in 1 .. n |-> l[k][3][2]]
             /\ bridges = [k \in 1 .. n |-> k]
    /\ devices = <<>>
    /\ need_scan = FALSE
    /\ active_device_paths = {}
    /\ device = NoDevice
    /\ default_port = 0
    /\ cur = 0
    /\ env = NoEnv
    /\ stopLog = <<>>
    /\ lastCall = NoCall
    /\ probe = NoProbe
    /\ handler = NoHandler

NextRegistry ==
    \/ \E start_port \in HarnessBasePorts : HGetNextAvailablePort(start_port)
    \/ \E i \in ObjIds : HIsRunning(i)
    \/ \E i \in ObjIds, out \in StopOutcomes : HStop(i, out)
    \/ \E i \in ObjIds : ProcExit(i)

RegistrySpec == InitRegistry /\ [][NextRegistry]_vars


(***************************************************************************)
(* Harness of find_serial_devices: a caller that scans with any exclude    *)
(* set, on either platform, with or without the meshtastic library, over   *)
(* any set of device files present on the host.                            *)
(***************************************************************************)
\* Every path a glob pattern of the platform can list.
HostPaths == UNION {glob_matches(patterns[k]) : k \in 1 .. Len(patterns)}

InitScanner ==
    /\ ZEROCONF_AVAILABLE = FALSE
    /\ MESHTASTIC_AVAILABLE \in BOOLEAN
    /\ darwin \in BOOLEAN
    /\ yolo = FALSE
    /\ pc = "harness"
    /\ exit_code = -1
    /\ heap = <<>>
    /\ proc = <<>>
    /\ bridges = <<>>
    /\ devices = <<>>
    /\ need_scan = FALSE
    /\ active_device_paths = {}
    /\ device = NoDevice
    /\ default_port = 0
    /\ cur = 0
    /\ env = NoEnv
    /\ stopLog = <<>>
    /\ lastCall = NoCall
    /\ probe = NoProbe
    /\ handler = NoHandler

\* devices = find_serial_devices(skip_devices=skip_devices)
HFindSerialDevices(skip_devices) ==
    /\ pc = "harness"
    /\ \E found \in find_serial_devices(skip_devices) :
          lastCall' = Call("find_serial_devices", 0, skip_devices, found)
    /\ stopLog' = <<>>
    /\ UNCHANGED <<flags, manager, probe, handler, heap, proc, bridges, env>>

NextScanner == \E skip_devices \in SUBSET HostPaths : HFindSerialDevices(skip_devices)

ScannerSpec == InitScanner /\ [][NextScanner]_vars


(***************************************************************************)
(* query_meshtastic_info.  Time is counted in polling intervals (the       *)
(* time.sleep(0.2) of line 265): `now` is time.time() - start_time at the  *)
(* top of an iteration.  A sleep lasts one interval or, under load, more.  *)
(* The device makes its node number and its owner known at any moment      *)
(* while the session is open, or never.                                    *)
(***************************************************************************)
\* timeout: int = 10, line 199.
ProbeTimeout == 10
\* The owner grace of line 262: time.time() - start_time > 5.
OwnerGrace == 5
\* time.sleep(0.2), line 265: five polls per time unit.
PollsPerUnit == 5
\* The longest a sleep may last, in polling intervals.
MaxJitter == 2

ProbedNodeId == "!3c7f9d4e"

\* Lines 260-261: f"{node_id} ({owner})"
with_owner(node_id) == node_id \o " (owner)"

\* The grace test with the bare identifier returned at once.
grace_elapsed_at_once(now) == TRUE

\* Line 262: time.time() - start_time > 5
grace_elapsed(now) == now > OwnerGrace * PollsPerUnit

\* Lines 202-211: the library check and the opening of the session; the
\* constructor raising is caught at line 274 with no session opened.
probe_open(p, opened) ==
    IF ~MESHTASTIC_AVAILABLE \/ ~opened
    THEN [p EXCEPT !.st = "returned", !.ret = "None"]
    ELSE [p EXCEPT !.st = "polling", !.session = "open", !.now = 0]

\* One evaluation of the loop condition of line 216 and, if it holds, one
\* iteration of the body (lines 217-265); else lines 267-273.
probe_iteration(p, slept) ==
    IF ~(p.now < ProbeTimeout * PollsPerUnit)
    THEN [p EXCEPT !.st = "returned", !.session = "closed", !.ret = "None"]
    ELSE IF p.id_known /\ p.owner_known
    THEN [p EXCEPT !.st = "returned", !.session = "closed",
                   !.ret = with_owner(ProbedNodeId)]
    ELSE IF p.id_known /\ grace_elapsed(p.now)
    THEN [p EXCEPT !.st = "returned", !.session = "closed", !.ret = ProbedNodeId]
    ELSE [p EXCEPT !.now = p.now + slept]

\* Lines 274-277: an exception raised inside the try block after the
\* session was opened; None is returned, interface.close() is not called.
probe_except(p) == [p EXCEPT !.st = "returned", !.ret = "None"]

InitProbe ==
    /\ ZEROCONF_AVAILABLE = FALSE
    /\ MESHTASTIC_AVAILABLE \in BOOLEAN
    /\ darwin = FALSE
    /\ yolo = FALSE
    /\ pc = "harness"
    /\ exit_code = -1
    /\ heap = <<>>
    /\ proc = <<>>
    /\ bridges = <<>>
    /\ devices = <<>>
    /\ need_scan = FALSE
    /\ active_device_paths = {}
    /\ device = NoDevice
    /\ default_port = 0
    /\ cur = 0
    /\ env = NoEnv
    /\ stopLog = <<>>
    /\ lastCall = NoCall
    /\ probe = NoProbe
    /\ handler = NoHandler

probe_frame == <<flags, manager, heap, proc, bridges, env, stopLog, lastCall,
                handler>>

\* query_meshtastic_info(device_path) is called.
ProbeOpen ==
    /\ probe.st = "idle"
    /\ \E opened \in BOOLEAN : probe' = probe_open(probe, opened)
    /\ UNCHANGED probe_frame

ProbeIteration ==
    /\ probe.st = "polling"
    /\ \E slept \in 1 .. MaxJitter : probe' = probe_iteration(probe, slept)
    /\ UNCHANGED probe_frame

ProbeRaises ==
    /\ probe.st = "polling"
    /\ probe' = probe_except(probe)
    /\ UNCHANGED probe_frame

\* interface.myInfo.my_node_num becomes available.
DeviceReportsNodeNum ==
    /\ probe.st = "polling"
    /\ ~probe.id_known
    /\ probe' = [probe EXCEPT !.id_known = TRUE]
    /\ UNCHANGED probe_frame

\* An owner name becomes available (myInfo.user or localNode).
DeviceReportsOwner ==
    /\ probe.st = "polling"
    /\ ~probe.owner_known
    /\ probe' = [probe EXCEPT !.owner_known = TRUE]
    /\ UNCHANGED probe_frame

NextProbe ==
    \/ ProbeOpen
    \/ ProbeIteration
    \/ ProbeRaises
    \/ DeviceReportsNodeNum
    \/ DeviceReportsOwner

ProbeSpec == InitProbe /\ [][NextProbe]_vars


(***************************************************************************)
(* signal_handler step by step (lines 472-478 / 398-404, with the stop()   *)
(* of lines 142-161 inlined).  SIGINT is delivered to the control thread   *)
(* between two bytecodes; a SIGINT delivered while the handler runs starts *)
(* a nested run of the handler on top of the interrupted one.  sys.exit(0) *)
(* in any frame unwinds every frame below it (nothing in stop() catches    *)
(* SystemExit) and ends the process.  Subprocesses exit on their own at    *)
(* any moment; they share the terminal's process group with the manager.   *)
(* handler.stack holds one frame per run: the index into `bridges` and the *)
(* next step for that bridge; handler.unregistered collects the objects    *)
(* whose unregister_service was called, handler.live_at_signal the bridges *)
(* that were running when the first signal was delivered.                  *)
(***************************************************************************)
\* Handler runs that may be stacked.
MaxSignals == 2

Frame(k, step) == [k |-> k, step |-> step]

\* (zeroconf, service_info) as start() leaves them on a running bridge.
StartedRegistrations == {<<FALSE, FALSE>>, <<TRUE, FALSE>>, <<TRUE, TRUE>>}

InitShutdown ==
    /\ ZEROCONF_AVAILABLE = TRUE
    /\ MESHTASTIC_AVAILABLE = TRUE
    /\ darwin = FALSE
    /\ yolo = FALSE
    /\ pc = "menu"
    /\ exit_code = -1
    /\ \E n \in 1 .. MaxListed :
          \E l \in [1 .. n -> HarnessDevices \X UserPorts \X StartedRegistrations] :
             /\ heap = [k \in 1 .. n |->
                          [Bridge(l[k][1], l[k][2],
                                  IF l[k][3][1] THEN ProbedNodeId ELSE "")
                             EXCEPT !.process = TRUE,
                                    !.zeroconf = l[k][3][1],
                                    !.service_info = l[k][3][2]]]
             /\ proc = [k \in 1 .. n |-> "running"]
             /\ bridges = [k \in 1 .. n |-> k]
    /\ devices = <<>>
    /\ need_scan = FALSE
    /\ active_device_paths = {}
    /\ device = NoDevice
    /\ default_port = 0
    /\ cur = 0
    /\ env = NoEnv
    /\ stopLog = <<>>
    /\ lastCall = NoCall
    /\ probe = NoProbe
    /\ handler = NoHandler

shutdown_frame == <<flags, exit_code, devices, need_scan, active_device_paths,
                    device, default_port, cur, env, stopLog, lastCall, probe,
                    bridges>>

\* The frame on top of the stack, and the stack with its top replaced.
top == handler.stack[Len(handler.stack)]

with_top(f) == [handler EXCEPT !.stack[Len(handler.stack)] = f]

\* SIGINT: signal_handler starts, on top of whatever was running.
DeliverSignal ==
    /\ pc \in {"menu", "handler"}
    /\ Len(handler.stack) < MaxSignals
    /\ pc' = "handler"
    /\ handler' = [handler EXCEPT
                      !.stack = Append(@, Frame(1, "check")),
                      !.live_at_signal =
                          IF handler.stack = <<>>
                          THEN {bridges[k] : k \in {j \in 1 .. Len(bridges) :
                                       is_running(heap, proc, bridges[j])}}
                          ELSE @]
    /\ UNCHANGED <<shutdown_frame, heap, proc>>

\* Lines 474-475: the next bridge of the loop and its is_running() test;
\* after the last bridge, line 478: sys.exit(0).
HandlerCheck ==
    /\ pc = "handler" /\ top.step = "check"
    /\ UNCHANGED <<flags, devices, need_scan, active_device_paths, device,
                   default_port, cur, env, stopLog, lastCall, probe, bridges,
                   heap, proc>>
    /\ IF top.k > Len(bridges)
       THEN /\ pc' = "interrupted"
            /\ exit_code' = 0
            /\ handler' = handler
       ELSE /\ UNCHANGED <<pc, exit_code>>
            /\ handler' = with_top(IF is_running(heap, proc, bridges[top.k])
                                   THEN Frame(top.k, "mdns")
                                   ELSE Frame(top.k + 1, "check"))

\* Lines 145-150: the guard, unregister_service and close (an exception is
\* swallowed).
HandlerUnregister ==
    /\ pc = "handler" /\ top.step = "mdns"
    /\ handler' =
          IF has_registration(heap[bridges[top.k]])
          THEN [with_top(Frame(top.k, "clear_mdns"))
                   EXCEPT !.unregistered = @ \cup {bridges[top.k]}]
          ELSE with_top(Frame(top.k, "terminate"))
    /\ UNCHANGED <<shutdown_frame, pc, heap, proc>>

\* Lines 151-152.
HandlerClearMdns ==
    /\ pc = "handler" /\ top.step = "clear_mdns"
    /\ heap' = [heap EXCEPT ![bridges[top.k]].zeroconf = FALSE,
                            ![bridges[top.k]].service_info = FALSE]
    /\ handler' = with_top(Frame(top.k, "terminate"))
    /\ UNCHANGED <<shutdown_frame, pc, proc>>

\* Lines 155-156: the guard and self.process.terminate().
HandlerTerminate ==
    /\ pc = "handler" /\ top.step = "terminate"
    /\ handler' = with_top(IF heap[bridges[top.k]].process
                           THEN Frame(top.k, "wait")
                           ELSE Frame(top.k + 1, "check"))
    /\ UNCHANGED <<shutdown_frame, pc, heap, proc>>

\* wait() with no timeout and no kill(): it returns only once the
\* subprocess has exited.
handler_wait_without_timeout ==
    /\ pc = "handler" /\ top.step = "wait"
    /\ proc[bridges[top.k]] # "running"
    /\ handler' = with_top(Frame(top.k, "clear_process"))
    /\ UNCHANGED <<shutdown_frame, pc, heap, proc>>

\* Lines 157-160: wait(timeout=3) returns when the subprocess has exited,
\* else kill().
HandlerWait ==
    /\ pc = "handler" /\ top.step = "wait"
    /\ proc' = [proc EXCEPT ![bridges[top.k]] = "exited"]
    /\ handler' = with_top(Frame(top.k, "clear_process"))
    /\ UNCHANGED <<shutdown_frame, pc, heap>>

\* Line 161: self.process = None.
HandlerClearProcess ==
    /\ pc = "handler" /\ top.step = "clear_process"
    /\ heap' = [heap EXCEPT ![bridges[top.k]].process = FALSE]
    /\ handler' = with_top(Frame(top.k + 1, "check"))
    /\ UNCHANGED <<shutdown_frame, pc, proc>>

NextShutdown ==
    \/ DeliverSignal
    \/ HandlerCheck
    \/ HandlerUnregister
    \/ HandlerClearMdns
    \/ HandlerTerminate
    \/ HandlerWait
    \/ HandlerClearProcess
    \/ \E i \in ObjIds : ProcExit(i)

ShutdownSpec == InitShutdown /\ [][NextShutdown]_vars

\* The steps of the control thread inside signal_handler.  The thread is
\* never suspended for good: every call it makes returns (wait has a
\* timeout of 3 s), so a step that stays possible is eventually taken.
\* Signals and subprocess exits are events of the environment and may or
\* may not happen.
HandlerSteps ==
    \/ HandlerCheck
    \/ HandlerUnregister
    \/ HandlerClearMdns
    \/ HandlerTerminate
    \/ HandlerWait
    \/ HandlerClearProcess

ShutdownLiveSpec == ShutdownSpec /\ WF_vars(HandlerSteps)


(***************************************************************************)
(* Properties.                                                             *)
(***************************************************************************)
\* The objects in the registry.
Registered == {bridges[k] : k \in 1 .. Len(bridges)}

\* "Live": the handle exists and the subprocess has not exited, stated on
\* the state itself.
Live(i) == heap[i].process /\ proc[i] = "running"

LiveRegistered == {i \in Registered : Live(i)}

\* C1: in every reachable state of the menu loop no two registered bridges
\* whose subprocess is running hold the same tcp_port (a create request on
\* a port held by a live bridge starts no Bridge).
NoSharedLivePort ==
    \A i, j \in Registered :
        (i # j /\ Live(i) /\ Live(j)) => heap[i].port # heap[j].port

\* C2: no two Bridge objects whose subprocess is running hold the same
\* device path, and no Bridge is ever constructed for a device path that a
\* running bridge holds at that moment.
NoSharedLiveDevice ==
    /\ [](\A i, j \in ObjIds :
            (i # j /\ proc[i] = "running" /\ proc[j] = "running")
                => heap[i].device # heap[j].device)
    /\ [][Len(heap') > Len(heap) =>
            \A i \in ObjIds :
                proc[i] = "running" => heap[i].device # heap'[Len(heap')].device]_vars

\* C2 witness: two registered bridges are live on different devices while
\* the cached device list still offers the device of one of them.
TwoLiveBridgesDeviceStillListed ==
    /\ pc = "prompt"
    /\ \E i, j \in LiveRegistered : heap[i].device # heap[j].device
    /\ \E n \in 1 .. Len(devices) :
          /\ devices[n].path \in active_device_paths
          /\ \E i \in LiveRegistered : heap[i].device = devices[n].path

\* C3: stop-all leaves every bridge that was in the registry with neither
\* a subprocess handle nor a registration, whether or not it was live.
StopAllReleasesEveryBridge ==
    [][(pc = "prompt" /\ bridges # <<>> /\ bridges' = <<>>) =>
          \A i \in Registered :
              ~heap'[i].process /\ ~has_registration(heap'[i])]_vars

\* C4: when the manager has exited through the signal handler, no
\* subprocess it spawned is still running and no registration is left.
InterruptReleasesEverything ==
    pc = "interrupted" =>
        \A i \in ObjIds : proc[i] # "running" /\ ~has_registration(heap[i])


\* The ports held by listed bridges that are running, stated on the state.
OccupiedPorts == {heap[i].port : i \in LiveRegistered}

\* C5: get_next_available_port(b, bridges) returns the smallest p >= b that
\* no running bridge of the list holds (ports of bridges that are not
\* running do not count), and the call changes no bridge, subprocess or
\* list.
NextPortIsSmallestFree ==
    /\ [](lastCall.op = "get_next_available_port" =>
            /\ lastCall.ret >= lastCall.arg
            /\ lastCall.ret \notin OccupiedPorts
            /\ \A q \in lastCall.arg .. (lastCall.ret - 1) : q \in OccupiedPorts)
    /\ [][lastCall'.op = "get_next_available_port" =>
            (heap' = heap /\ proc' = proc /\ bridges' = bridges)]_vars

\* C5 witness: the call skipped an occupied port and returned a port that a
\* listed bridge which is not running holds.
NextPortSkipsLiveTakesDead ==
    /\ lastCall.op = "get_next_available_port"
    /\ lastCall.ret > lastCall.arg
    /\ \E i \in Registered : ~Live(i) /\ heap[i].port = lastCall.ret

\* C6: a stop() that directly follows a stop() of the same Bridge issues no
\* unregister, terminate or kill, changes nothing, and leaves the bridge
\* as the first one did: not running and without registration.
StopIsIdempotent ==
    /\ [](lastCall.op = "stop" =>
            /\ ~Live(lastCall.obj)
            /\ ~has_registration(heap[lastCall.obj]))
    /\ [][(lastCall.op = "stop" /\ lastCall'.op = "stop"
              /\ lastCall'.obj = lastCall.obj) =>
            (stopLog' = <<>> /\ heap' = heap /\ proc' = proc)]_vars

\* C6 witness: a second stop() has run on a bridge that was started with a
\* registration: the subprocess is gone, the handle is cleared and the
\* latest stop() had nothing to do.
StoppedTwice ==
    /\ lastCall.op = "stop"
    /\ stopLog = <<>>
    /\ proc[lastCall.obj] = "exited"
    /\ ~heap[lastCall.obj].process
    /\ heap[lastCall.obj].node_id # ""
    /\ ZEROCONF_AVAILABLE

\* C7: after stop() returns, the registrar instance, the service record and
\* the subprocess handle are all cleared.
StopClearsBothHandles ==
    lastCall.op = "stop" =>
        /\ ~heap[lastCall.obj].zeroconf
        /\ ~heap[lastCall.obj].service_info
        /\ ~heap[lastCall.obj].process

\* C8: is_running() returns true exactly when the handle exists and the
\* subprocess has not exited at the moment of the call, and the derived
\* views (next port, occupied device paths) count exactly those bridges.
IsRunningIsLive ==
    /\ lastCall.op = "is_running" => (lastCall.ret <=> Live(lastCall.obj))
    /\ live_device_paths(bridges) = {heap[i].device : i \in LiveRegistered}
    /\ used_ports(bridges) = OccupiedPorts
    /\ lastCall.op = "get_next_available_port" => lastCall.ret \notin OccupiedPorts

\* C8 witness: is_running() has just returned false for a bridge whose
\* handle still exists: the subprocess exited on its own, without stop().
ExitedOnItsOwnSeenNotRunning ==
    /\ lastCall.op = "is_running"
    /\ lastCall.ret = FALSE
    /\ heap[lastCall.obj].process
    /\ proc[lastCall.obj] = "exited"

\* C9: when stty or Popen fails, start() reports failure and the Bridge is
\* not registered; the registry and the live bridges are as before; the
\* failed Bridge never runs, never holds a registration; after an stty
\* failure Popen is not called.
FailedStartLeavesNothing ==
    /\ []((env.stty = "fail" \/ env.popen = "fail") =>
            /\ pc = "start_failed"
            /\ env.stty = "fail" => env.popen = "-"
            /\ proc[cur] = "none")
    /\ [](\A i \in ObjIds :
            proc[i] = "none" =>
               /\ i \notin Registered
               /\ ~heap[i].process
               /\ ~heap[i].zeroconf /\ ~heap[i].service_info)
    /\ [][(Len(heap') > Len(heap) /\ proc'[Len(heap')] = "none") =>
            /\ bridges' = bridges
            /\ {i \in ObjIds : proc'[i] = "running"} = {i \in ObjIds : proc[i] = "running"}
            /\ \A i \in ObjIds : heap'[i] = heap[i]]_vars

\* C9 witness: Popen failed for a second bridge while a first one is live.
SpawnFailedBesideLiveBridge ==
    /\ pc = "start_failed"
    /\ env.popen = "fail"
    /\ LiveRegistered # {}

\* C10: start() returns success exactly when stty and Popen both
\* succeeded; a failure in _start_mdns is swallowed, leaves the subprocess
\* as spawned, and the bridge is appended to the registry.
StartSucceedsIffSpawned ==
    /\ [](pc = "start_ret" <=> (env.stty = "ok" /\ env.popen = "ok"))
    /\ [](pc = "start_failed" <=> (env.stty = "fail" \/ env.popen = "fail"))
    /\ [](pc = "start_ret" =>
            heap[cur].process /\ proc[cur] # "none" /\ cur \notin Registered)
    /\ [][(pc' = "start_ret" /\ pc # "start_ret") => proc'[cur'] = "running"]_vars
    /\ [][(pc = "start_ret" /\ pc' \notin {"start_ret", "interrupted"}) =>
            /\ bridges' = Append(bridges, cur)
            /\ heap' = heap
            /\ proc' = proc]_vars

\* C10 witness: a bridge whose registration failed after the Zeroconf
\* instance was created is in the registry and running.
RegisteredDespiteMdnsFailure ==
    \E i \in LiveRegistered : heap[i].zeroconf /\ ~heap[i].service_info

\* C11: on either platform the device list the scanner returns contains no
\* path of the exclude set (the probed devices are those of the list, lines
\* 337-347, so no excluded path is probed either).
ScanOmitsExcludedPaths ==
    lastCall.op = "find_serial_devices" =>
        \A k \in 1 .. Len(lastCall.ret) : lastCall.ret[k].path \notin lastCall.arg

\* C12: selecting a device the manager treats as already bridged (its path
\* is in active_device_paths) is rejected and the loop goes on to a prompt
\* with no Bridge constructed; the manager never dies of the uncaught
\* exception in that branch, also when the holder exited meanwhile.
AlreadyBridgedRejectionContinues == pc # "crashed"

\* C13: a path stops being exclusive as soon as its bridge is no longer
\* live: at the prompt, every listed device that the selection branch would
\* refuse as already bridged is held by a bridge that is live at that
\* moment, so a request for a path no live bridge holds is accepted.
FreePathIsAccepted ==
    pc = "prompt" =>
        \A n \in 1 .. Len(devices) :
            already_bridged(devices[n].path) =>
                devices[n].path \in {heap[i].device : i \in LiveRegistered}

\* C14: the probe returns 'identifier (owner)' only when both are known,
\* returns the bare identifier only after the grace window has elapsed
\* with the identifier known and no owner, returns unknown when no
\* identifier is known at the timeout, and never sleeps through a poll at
\* which one of the two return conditions holds (so an identifier that
\* appears after the grace window is returned at the next poll, not at the
\* timeout).
ProbeFollowsPatiencePolicy ==
    /\ [](probe.st = "returned" =>
            /\ probe.ret = with_owner(ProbedNodeId) =>
                  probe.id_known /\ probe.owner_known
            /\ probe.ret = ProbedNodeId =>
                  /\ probe.id_known /\ ~probe.owner_known
                  /\ probe.now > OwnerGrace * PollsPerUnit
            /\ (probe.session = "closed" /\ ~probe.id_known) => probe.ret = "None"
            /\ (probe.session = "closed" /\ probe.ret = "None") =>
                  probe.now >= ProbeTimeout * PollsPerUnit)
    /\ [][(probe.st = "polling" /\ probe'.now > probe.now) =>
            /\ probe.now < ProbeTimeout * PollsPerUnit
            /\ ~(probe.id_known /\ probe.owner_known)
            /\ ~(probe.id_known /\ probe.now > OwnerGrace * PollsPerUnit)]_vars

\* C14 witness: the identifier appeared after the grace window with no
\* owner, and the bare identifier was returned before the timeout.
BareIdReturnedBeforeTimeout ==
    /\ probe.st = "returned"
    /\ probe.ret = ProbedNodeId
    /\ probe.now > OwnerGrace * PollsPerUnit + MaxJitter
    /\ probe.now < ProbeTimeout * PollsPerUnit

\* C15: whenever the probe has returned after a session was opened, the
\* session has been closed.
ProbeClosesSession ==
    probe.st = "returned" => probe.session # "open"

\* C16: when the process exits through the handler and a second signal was
\* delivered while the handler was tearing down, every bridge that was
\* live at the first signal has no running subprocess and no registration
\* that was not unregistered.
SecondSignalTeardownCompletes ==
    (pc = "interrupted" /\ Len(handler.stack) > 1) =>
        \A i \in handler.live_at_signal :
            /\ proc[i] # "running"
            /\ has_registration(heap[i]) => i \in handler.unregistered

\* C17: in unattended mode the manager scans once, bridges the first
\* device of the scan that has an identifier, on port 4403, with a single
\* bridge, and then waits until interrupted; it exits with 1 and no
\* subprocess spawned when socat is missing, no device is found or no
\* device is identified, and with 0 through the interrupt handler.
YoloBridgesFirstIdentified ==
    /\ [](yolo =>
            /\ Len(heap) <= 1
            /\ pc \notin {"prompt", "empty_prompt", "port_prompt", "start_failed",
                          "crashed"}
            /\ pc \in {"start_ret", "yolo_wait"} =>
                  /\ Len(heap) = 1
                  /\ heap[1].port = 4403
                  /\ \E k \in 1 .. Len(devices) :
                        /\ devices[k].path = heap[1].device
                        /\ devices[k].node_name = heap[1].node_id
                        /\ devices[k].node_name # ""
                        /\ \A j \in 1 .. (k - 1) : devices[j].node_name = ""
            /\ pc = "yolo_wait" => bridges = <<1>>
            /\ pc = "exited" =>
                  exit_code = 1 /\ \A i \in ObjIds : proc[i] = "none"
            /\ pc = "interrupted" => exit_code = 0)
    /\ [][(yolo /\ pc = "check_deps") => pc' \in {"yolo_scan", "exited"}]_vars
    /\ [][(yolo /\ pc = "yolo_scan") =>
            /\ pc' \in {"yolo_pick", "exited", "interrupted"}
            /\ pc' = "yolo_pick" => devices' # <<>>]_vars
    /\ [][(yolo /\ pc = "yolo_pick") =>
            /\ pc' \in {"start_ret", "exited", "interrupted"}
            /\ (\A k \in 1 .. Len(devices) : devices[k].node_name = "") =>
                  (pc' \in {"exited", "interrupted"} /\ heap' = heap)]_vars
    /\ [][(yolo /\ pc \in {"yolo_pick", "start_ret", "yolo_wait"}) =>
            (devices' = devices \/ pc' \in {"exited", "interrupted"})]_vars
    /\ [][(yolo /\ pc = "yolo_wait") => pc' \in {"yolo_wait", "interrupted"}]_vars

\* C17 witness: the manager waits in unattended mode with its bridge on
\* the second device of the scan, the first one having no identifier.
YoloWaitingOnSecondDevice ==
    /\ yolo
    /\ pc = "yolo_wait"
    /\ Len(devices) > 1
    /\ devices[1].node_name = ""
    /\ heap[1].device = devices[2].path

RegistrationOnlyWithSubprocess ==
    \A i \in ObjIds :
        (heap[i].zeroconf \/ heap[i].service_info) =>
            /\ heap[i].node_id # ""
            /\ ZEROCONF_AVAILABLE
            /\ proc[i] # "none"
            /\ heap[i].process

\* C20: within one stop() the registration, if any, is unregistered
\* before termination of the subprocess is requested; termination is
\* requested whenever a handle exists, whether or not unregistering
\* raised; terminate and the wait precede any kill; and kill is issued
\* only for a subprocess that was still running.
StopReleasesInOrder ==
    [][lastCall'.op = "stop" =>
         LET b == heap[lastCall'.obj]
             p == proc[lastCall'.obj]
             at(op) == {k \in 1 .. Len(stopLog') : stopLog'[k] = op}
         IN  /\ \A k \in at("unregister_service") \cup at("close") :
                   \A m \in at("terminate") \cup at("wait") \cup at("kill") : k < m
             /\ has_registration(b) <=> at("unregister_service") # {}
             /\ b.process <=> at("terminate") # {}
             /\ \A k \in at("kill") :
                   \E m \in at("terminate"), w \in at("wait") : m < w /\ w < k
             /\ at("kill") # {} => p = "running"
             /\ \A op \in {"unregister_service", "close", "terminate", "wait", "kill"} :
                   Cardinality(at(op)) <= 1]_vars

\* C20 witness: a stop() whose unregister_service raised still requested
\* termination, waited, and killed the subprocess that had not exited.
StopKilledAfterUnregisterError ==
    /\ lastCall.op = "stop"
    /\ stopLog = <<"unregister_service", "terminate", "wait", "kill">>

\* C21: stop() always returns, with the bridge not running, whether the
\* subprocess exits on terminate, ignores it or had already exited: every
\* stop() the handler has entered reaches its end or the process exit, and
\* the handler, once started, finishes its loop over the registry and
\* exits.
StopAlwaysReturns ==
    /\ (pc = "handler") ~> (pc = "interrupted")
    /\ \A f \in {"mdns", "clear_mdns", "terminate", "wait", "clear_process"} :
          (pc = "handler" /\ top.step = f) ~>
              (pc = "interrupted" \/ (pc = "handler" /\ top.step = "check"))
    /\ [][(pc = "handler" /\ top.step = "clear_process"
             /\ handler' # handler /\ Len(handler'.stack) = Len(handler.stack)) =>
            ~is_running(heap', proc', bridges[top.k])]_vars

\* C21 witness: the handler has exited after stopping two bridges, one of
\* which had exited on its own while the other was running when stopped.
HandlerFinishedOverTwoBridges ==
    /\ pc = "interrupted"
    /\ Len(bridges) = 2
    /\ \A i \in Registered : proc[i] = "exited"
    /\ \E i, j \in Registered : ~heap[i].process /\ heap[j].process

\* C22: the default port shown at the port prompt is held by no live
\* bridge for as long as the prompt waits (subprocesses may exit
\* meanwhile), every port from 4403 up to it is the port of a registered
\* bridge, and accepting it starts the new bridge on that port, which no
\* live bridge holds at that moment.
DefaultPortIsFreeWhenStarted ==
    /\ [](pc = "port_prompt" =>
            /\ default_port >= 4403
            /\ default_port \notin OccupiedPorts
            /\ \A q \in 4403 .. (default_port - 1) :
                  \E i \in Registered : heap[i].port = q
            /\ LiveRegistered = Registered =>
                  default_port \notin {heap[i].port : i \in Registered})
    /\ [][AcceptDefaultPort =>
            /\ Len(heap') = Len(heap) + 1
            /\ heap'[Len(heap')].port = default_port
            /\ \A i \in ObjIds :
                  (heap[i].process /\ proc[i] = "running") =>
                      heap[i].port # heap'[Len(heap')].port]_vars

\* C22 witness: with a live bridge on 4403, a bridge created on the
\* default port has been started on 4404.
SecondDefaultPortBridgeStarted ==
    /\ pc = "start_ret"
    /\ default_port = 4404
    /\ heap[cur].port = 4404
    /\ proc[cur] = "running"
    /\ \E i \in LiveRegistered : heap[i].port = 4403

====
